---- MODULE Spec2Model ----
(***************************************************************************)
(* Model of serial-server.py: the main loop (the "supervisor") that waits  *)
(* for a client, checks the whitelist, opens the serial port, runs one     *)
(* Redirector and tears it down, and the three activities of a Redirector  *)
(* (reader thread, status-line poll thread, writer on the main thread).    *)
(*                                                                         *)
(* Every accepted client gets the next number 1, 2, ...; the Redirector    *)
(* constructed for client c is Redirector c, so alive[c], rpc[c], ppc[c]   *)
(* and lock[c] are the fields and threads of that instance.                *)
(***************************************************************************)
EXTENDS Naturals, FiniteSets, Sequences

\* ------------------------------------------------------------------ bounds
MaxClients == 2      \* connections srv.accept() returns in one run
MaxBuf == 1          \* bytes a peer can have in flight towards the server
MaxOpenFails == 2    \* consecutive failures of ser.open() that are counted

\* --------------------------------------------------------------- constants
IP_WHITELIST == {"localhost", "0.0.0.0", "127.0.0.1"}

\* Host strings a peer can show up with: one listed, one a digit off.
PeerHosts == {"127.0.0.1", "127.0.0.2"}

\* Values of the serial settings bundle (get_settings / apply_settings).
Cfgs == {"cfgA", "cfgB"}

Clients == 1..MaxClients

VARIABLES
    pc,          \* position of the main thread
    client,      \* the variable client: 0 is None, else the client number
    addr,        \* addr[0], the peer host of the last accept ("none" before)
    nAccepted,   \* connections accepted so far
    sockClosed,  \* sockClosed[c]: client.close() was called on socket c
    inbuf,       \* bytes of the current client not yet received
    peerClosed,  \* the current client's peer has closed its end
    serOpen,     \* ser.is_open
    dtr, rts,    \* ser.dtr, ser.rts
    cfg,         \* the serial settings now in force
    settings,    \* the variable settings (the snapshot), "none" before
    openFails,   \* failed ser.open() calls in the present serial wait
    alive,       \* alive[c]: Redirector c's self.alive
    rpc,         \* rpc[c]: position of Redirector c's reader thread
    ppc,         \* ppc[c]: position of Redirector c's poll thread
    lock,        \* lock[c]: holder of Redirector c's _write_lock
    pending,     \* exception in flight while the finally block runs
    failed,      \* history: a copy activity of this pass has hit an I/O error
    ioFails      \* the run is one in which device and socket calls can fail

vars == <<pc, client, addr, nAccepted, sockClosed, inbuf, peerClosed,
          serOpen, dtr, rts, cfg, settings, openFails, alive, rpc, ppc, lock,
          pending, failed, ioFails>>

supVars == <<client, addr, nAccepted, sockClosed>>
peerVars == <<inbuf, peerClosed>>
serVars == <<serOpen, dtr, rts, cfg, settings, openFails>>
redVars == <<alive, rpc, ppc, lock>>
envVars == <<failed, ioFails>>

\* Positions of the main thread inside r.shortcircuit() (writer and its stop()).
SessionPcs == {"w_loop", "w_blocked", "w_lock", "w_send", "w_stop",
               "w_join_read", "w_join_poll"}

\* Positions of the main thread inside the finally block.
FinallyPcs == {"fin_stop", "fin_join_read", "fin_join_poll", "fin_close_client",
               "fin_dtr", "fin_apply", "fin_close_ser"}

InitProgram ==
    /\ pc = "top"
    /\ client = 0
    /\ addr = "none"
    /\ nAccepted = 0
    /\ sockClosed = [c \in Clients |-> FALSE]
    /\ inbuf = 0
    /\ peerClosed = FALSE
    /\ serOpen = FALSE
    /\ dtr = FALSE
    /\ rts = FALSE
    /\ cfg = "cfgA"
    /\ settings = "none"
    /\ openFails = 0
    /\ alive = [c \in Clients |-> FALSE]
    /\ rpc = [c \in Clients |-> "none"]
    /\ ppc = [c \in Clients |-> "none"]
    /\ lock = [c \in Clients |-> "free"]
    /\ pending = "none"
    /\ failed = FALSE

\* A run in which device and socket calls can fail at any time.
Init == InitProgram /\ ioFails = TRUE

\* A run in which no device or socket call fails (ser.open() excepted: the
\* port may still be absent or busy for a while).
CleanInit == InitProgram /\ ioFails = FALSE

\* ------------------------------------------------------------- the peer
\* The connected peer sends one more byte.
PeerSend ==
    /\ pc # "terminated"
    /\ client # 0 /\ ~peerClosed /\ ~sockClosed[client]
    /\ inbuf < MaxBuf
    /\ inbuf' = inbuf + 1
    /\ UNCHANGED <<pc, supVars, peerClosed, serVars, redVars, pending, envVars>>

\* The connected peer closes its end of the connection.
PeerClose ==
    /\ pc # "terminated"
    /\ client # 0 /\ ~peerClosed /\ ~sockClosed[client]
    /\ peerClosed' = TRUE
    /\ UNCHANGED <<pc, supVars, inbuf, serVars, redVars, pending, envVars>>

\* ------------------------------------------------- main loop: client wait
\* lines 234-235: client = None, at the top of every pass of the main loop;
\* is_socket_connected(None) is False, so the loop body is entered.
Top ==
    /\ pc = "top"
    /\ client' = 0
    /\ inbuf' = 0
    /\ peerClosed' = FALSE
    /\ pc' = "accept"
    /\ failed' = FALSE
    /\ UNCHANGED <<addr, nAccepted, sockClosed, serVars, redVars,
                   pending, ioFails>>

\* is_socket_connected(sock): the value it returns for each outcome of
\* sock.recv(1): a byte is True, b"" is False, socket.error is True.
is_socket_connected(outcome) ==
    CASE outcome = "data" -> TRUE
      [] outcome = "eof" -> FALSE
      [] outcome = "error" -> TRUE

\* The failure a device or socket call can end in, in a run where they fail.
Failure == IF ioFails THEN {"error"} ELSE {}

\* The outcomes sock.recv can have now on the current client's socket: a
\* pending byte, end of stream once the peer closed, or a socket error.
RecvOutcomes ==
    (IF inbuf > 0 THEN {"data"} ELSE {})
    \cup (IF inbuf = 0 /\ peerClosed THEN {"eof"} ELSE {})
    \cup Failure

\* line 235: the loop test "while not is_socket_connected(client)". The
\* accepted socket is still blocking here, so recv(1) waits for an outcome;
\* the byte it receives is consumed.
Probe ==
    /\ pc = "probe"
    /\ \E o \in RecvOutcomes :
        /\ inbuf' = IF o = "data" THEN inbuf - 1 ELSE inbuf
        /\ pc' = IF is_socket_connected(o) THEN "check" ELSE "accept"
    /\ UNCHANGED <<supVars, peerClosed, serVars, redVars, pending, envVars>>

\* lines 236-244: srv.accept() returns a connection, or times out (continue:
\* the loop test is made again, False at once while client is None).
Accept ==
    /\ pc = "accept"
    /\ \E h \in PeerHosts \cup {"timeout"} :
        IF h = "timeout"
          THEN /\ pc' = IF client = 0 THEN "accept" ELSE "probe"
               /\ UNCHANGED <<supVars, peerVars>>
          ELSE /\ nAccepted < MaxClients
               /\ nAccepted' = nAccepted + 1
               /\ client' = nAccepted + 1
               /\ addr' = h
               /\ inbuf' = 0
               /\ peerClosed' = FALSE
               /\ pc' = "probe"
               /\ UNCHANGED sockClosed
    /\ UNCHANGED <<serVars, redVars, pending, envVars>>

\* line 247: "addr[0] not in IP_WHITELIST", exact membership of the string.
Denied(h) == h \notin IP_WHITELIST

\* lines 246-250: the whitelist check; a denied client is closed.
Check ==
    /\ pc = "check"
    /\ IF Denied(addr)
         THEN /\ sockClosed' = [sockClosed EXCEPT ![client] = TRUE]
              /\ pc' = "top"
         ELSE /\ pc' = "sockopt"
              /\ UNCHANGED sockClosed
    /\ UNCHANGED <<client, addr, nAccepted, peerVars, serVars, redVars,
                   pending, envVars>>

\* ------------------------------------------------ main loop: session setup
\* lines 252-256: client.setsockopt(TCP_NODELAY) and client.setblocking(False);
\* a socket.error leaves through the handler of line 321 to the next pass.
SockOpt ==
    /\ pc = "sockopt"
    /\ \E o \in {"ok"} \cup Failure :
        pc' = IF o = "ok" THEN "serwait" ELSE "top"
    /\ UNCHANGED <<supVars, peerVars, serVars, redVars, pending, envVars>>

\* Variant of MustOpen: the serial wait is skipped.
MustOpen_Skipped == FALSE

\* line 259: the test of "while not ser.is_open".
MustOpen == ~serOpen

\* lines 258-278: the serial wait. ser.open() succeeds or raises; every
\* failure sleeps SERIAL_WAIT and tries again ("Port is already open" cannot
\* be raised here, open() being called on a closed port only).
SerWait ==
    /\ pc = "serwait"
    /\ IF MustOpen
         THEN /\ \E o \in {"ok", "busy", "absent"} :
                  IF o = "ok"
                    THEN serOpen' = TRUE /\ openFails' = openFails
                    ELSE /\ serOpen' = serOpen
                         /\ openFails' = IF openFails < MaxOpenFails
                                           THEN openFails + 1 ELSE openFails
              /\ pc' = "serwait"
         ELSE /\ pc' = "snapshot"
              /\ openFails' = 0
              /\ UNCHANGED serOpen
    /\ UNCHANGED <<supVars, peerVars, dtr, rts, cfg, settings, redVars,
                   pending, envVars>>

\* line 284: settings = ser.get_settings().
Snapshot ==
    /\ pc = "snapshot"
    /\ settings' = cfg
    /\ pc' = "assert"
    /\ UNCHANGED <<supVars, peerVars, serOpen, dtr, rts, cfg, openFails,
                   redVars, pending, envVars>>

\* lines 287-288: ser.dtr = True; ser.rts = True. A failure of the first
\* assignment (the attribute is set, the device call raises) leaves through
\* the handler of line 321.
AssertLines ==
    /\ pc = "assert"
    /\ \E o \in {"ok"} \cup Failure :
        /\ dtr' = TRUE
        /\ rts' = IF o = "ok" THEN TRUE ELSE rts
        /\ pc' = IF o = "ok" THEN "construct" ELSE "top"
    /\ UNCHANGED <<supVars, peerVars, serOpen, cfg, settings, openFails,
                   redVars, pending, envVars>>

\* lines 291-295 and 51-59: Redirector(ser, client, ...). The PortManager it
\* builds sends its option requests through Redirector.write; a socket.error
\* there leaves through the handler of line 321.
Construct ==
    /\ pc = "construct"
    /\ \E o \in {"ok"} \cup Failure :
        pc' = IF o = "ok" THEN "start" ELSE "top"
    /\ UNCHANGED <<supVars, peerVars, serVars, redVars, pending, envVars>>

\* lines 298-299 and 71-84: r.shortcircuit() sets alive and starts the
\* reader and the poll thread, then runs writer() on the main thread.
Shortcircuit ==
    /\ pc = "start"
    /\ alive' = [alive EXCEPT ![client] = TRUE]
    /\ rpc' = [rpc EXCEPT ![client] = "loop"]
    /\ ppc' = [ppc EXCEPT ![client] = "loop"]
    /\ pc' = "w_loop"
    /\ UNCHANGED <<supVars, peerVars, serVars, lock, pending, envVars>>

\* ------------------------------------------------------- Redirector.write
\* Variant of LockFree: sendall is entered without taking the lock.
LockFree_Unguarded(c) == TRUE

\* line 110: "with self._write_lock" can be entered when the lock is free.
LockFree(c) == lock[c] = "free"

\* The outcomes socket.sendall can have on socket c: it fails once the
\* supervisor has closed the socket, and can fail at any time before.
SendOutcomes(c) == IF sockClosed[c] THEN {"error"} ELSE {"ok"} \cup Failure

\* Variant of Released: the lock is not released after the send.
Released_Kept(c) == lock

\* line 111: the lock after the with statement is left, by return or raise.
Released(c) == [lock EXCEPT ![c] = "free"]

\* ------------------------------------------------------ Redirector.reader
\* Both threads are daemon threads (lines 77 and 81): they end with the
\* process, so none of their steps is taken once the main loop has exited.

\* Variant of ReaderExitFlag: the reader stores True when its loop ends.
ReaderExitFlag_Set == TRUE

\* line 103: the value the reader stores in self.alive when its loop ends.
ReaderExitFlag == FALSE

\* Variant of ReaderGoesOn: the reader's loop is "while True".
ReaderGoesOn_Forever(c) == TRUE

\* line 91: the test of the reader's loop, "while self.alive".
ReaderGoesOn(c) == alive[c]

\* lines 91-104, one pass of the reader up to its next shared operation:
\* the test of "while self.alive", then self.serial.read(...), bounded by
\* the read timeout: no data (next pass), data (on to Redirector.write), or
\* an exception (the only outcome on a closed port), caught at line 100
\* (break). Leaving the loop, the reader stores False in self.alive and ends.
ReaderPass(c) ==
    /\ pc # "terminated"
    /\ rpc[c] = "loop"
    /\ \E o \in (IF ~ReaderGoesOn(c) THEN {"stopped"}
                 ELSE IF serOpen THEN {"nodata", "data"} \cup Failure
                 ELSE {"error"}) :
        /\ rpc' = [rpc EXCEPT ![c] = CASE o = "nodata" -> "loop"
                                       [] o = "data" -> "lock"
                                       [] OTHER -> "done"]
        /\ alive' = IF o \in {"stopped", "error"}
                      THEN [alive EXCEPT ![c] = ReaderExitFlag] ELSE alive
        /\ failed' = (failed \/ (o = "error" /\ c = client))
    /\ UNCHANGED <<pc, supVars, peerVars, serVars, ppc, lock, pending,
                   ioFails>>

\* lines 97 and 110: the reader enters Redirector.write and takes the lock.
ReaderLock(c) ==
    /\ pc # "terminated"
    /\ rpc[c] = "lock"
    /\ LockFree(c)
    /\ lock' = [lock EXCEPT ![c] = "reader"]
    /\ rpc' = [rpc EXCEPT ![c] = "send"]
    /\ UNCHANGED <<pc, supVars, peerVars, serVars, alive, ppc, pending,
                   envVars>>

\* line 111: sendall returns or raises; the with statement releases the lock
\* either way. A socket.error is caught at line 100 (break), and the reader
\* stores False in self.alive and ends (lines 103-104).
ReaderSend(c) ==
    /\ pc # "terminated"
    /\ rpc[c] = "send"
    /\ \E o \in SendOutcomes(c) :
        /\ rpc' = [rpc EXCEPT ![c] = IF o = "ok" THEN "loop" ELSE "done"]
        /\ alive' = IF o = "error"
                      THEN [alive EXCEPT ![c] = ReaderExitFlag] ELSE alive
        /\ failed' = (failed \/ (o = "error" /\ c = client))
    /\ lock' = Released(c)
    /\ UNCHANGED <<pc, supVars, peerVars, serVars, ppc, pending,
                   ioFails>>

\* --------------------------------------------- Redirector.statusline_poller
\* lines 63-69, one pass of the poll thread: the test of "while self.alive",
\* time.sleep(1), then check_modem_lines(): nothing to report, a modem-state
\* notification to write to the socket, or a SerialException (the only
\* outcome on a closed port), which is logged at line 68.
PollPass(c) ==
    /\ pc # "terminated"
    /\ ppc[c] = "loop"
    /\ \E o \in (IF ~alive[c] THEN {"stopped"}
                 ELSE IF serOpen THEN {"quiet", "notify"} \cup Failure
                 ELSE {"error"}) :
        ppc' = [ppc EXCEPT ![c] = CASE o = "stopped" -> "done"
                                    [] o = "notify" -> "lock"
                                    [] OTHER -> "loop"]
    /\ UNCHANGED <<pc, supVars, peerVars, serVars, alive, rpc, lock, pending,
                   envVars>>

\* line 110, from check_modem_lines: the notification takes the lock.
PollLock(c) ==
    /\ pc # "terminated"
    /\ ppc[c] = "lock"
    /\ LockFree(c)
    /\ lock' = [lock EXCEPT ![c] = "poller"]
    /\ ppc' = [ppc EXCEPT ![c] = "send"]
    /\ UNCHANGED <<pc, supVars, peerVars, serVars, alive, rpc, pending,
                   envVars>>

\* line 111, from check_modem_lines: sendall returns or raises and the lock
\* is released. A socket.error is no SerialException: line 67 does not catch
\* it and the thread ends with self.alive as it is.
PollSend(c) ==
    /\ pc # "terminated"
    /\ ppc[c] = "send"
    /\ \E o \in SendOutcomes(c) :
        ppc' = [ppc EXCEPT ![c] = IF o = "ok" THEN "loop" ELSE "done"]
    /\ lock' = Released(c)
    /\ UNCHANGED <<pc, supVars, peerVars, serVars, alive, rpc, pending,
                   envVars>>

\* -------------------------------------------------------- Redirector.stop
\* Variant of StopMustJoin: stop() never clears the flag nor joins.
StopMustJoin_Never(c) == FALSE

\* Variant of StopMustJoin: stop() joins whatever the flag is.
StopMustJoin_Always(c) == TRUE

\* line 141: "if self.alive", the test that decides whether stop() clears
\* the flag and joins the two threads.
StopMustJoin(c) == alive[c]

\* lines 136-142: stop() called at position here: with the flag set it
\* clears it and goes on to the joins, otherwise it returns at once.
Stop(here, joining, returned) ==
    /\ pc = here
    /\ IF StopMustJoin(client)
         THEN /\ alive' = [alive EXCEPT ![client] = FALSE]
              /\ pc' = joining
         ELSE /\ pc' = returned
              /\ UNCHANGED alive
    /\ UNCHANGED <<supVars, peerVars, serVars, rpc, ppc, lock, pending,
                   envVars>>

\* line 143: self.thread_read.join() returns once the reader has ended.
JoinRead(here, next) ==
    /\ pc = here
    /\ rpc[client] = "done"
    /\ pc' = next
    /\ UNCHANGED <<supVars, peerVars, serVars, redVars, pending, envVars>>

\* line 144: self.thread_poll.join() returns once the poll thread has ended
\* (having left its loop, or with an uncaught exception).
JoinPoll(here, next) ==
    /\ pc = here
    /\ ppc[client] = "done"
    /\ pc' = next
    /\ UNCHANGED <<supVars, peerVars, serVars, redVars, pending, envVars>>

\* ------------------------------------------------------ Redirector.writer
\* The outcomes self.serial.write can have: it returns, or raises a
\* SerialException, which line 130 catches (break).
SerWriteOutcomes == IF serOpen THEN {"ok"} \cup Failure ELSE {"error"}

\* lines 117-132, one pass of the writer up to its next shared operation:
\* the test of "while self.alive", then self.socket.recv(1024) on the
\* non-blocking socket: the pending bytes, b"" after the peer closed (break),
\* BlockingIOError when nothing is pending (on to the handler of line 126),
\* or another socket.error (line 130: break). Received bytes go through
\* self.rfc2217.filter: the collaborator may apply a settings request of the
\* client to the port, and either answers on the socket through
\* Redirector.write first, or the payload is written to the port at once.
WriterPass ==
    /\ pc = "w_loop"
    /\ \E o \in (IF ~alive[client] THEN {"stopped"}
                 ELSE RecvOutcomes
                      \cup (IF inbuf = 0 /\ ~peerClosed THEN {"block"} ELSE {})),
          k \in Cfgs, answer \in BOOLEAN, w \in SerWriteOutcomes :
        /\ pc' = CASE o = "data" /\ answer -> "w_lock"
                   [] o = "data" /\ ~answer /\ w = "ok" -> "w_loop"
                   [] o = "block" -> "w_blocked"
                   [] OTHER -> "w_stop"
        /\ inbuf' = IF o = "data" THEN 0 ELSE inbuf
        /\ cfg' = IF o = "data" THEN k ELSE cfg
        /\ failed' = (failed \/ o = "error"
                              \/ (o = "data" /\ ~answer /\ w = "error"))
    /\ UNCHANGED <<supVars, peerClosed, serOpen, dtr, rts, settings, openFails,
                   redVars, pending, ioFails>>

\* line 110, from filter: the answer takes the lock.
WriterLock ==
    /\ pc = "w_lock"
    /\ LockFree(client)
    /\ lock' = [lock EXCEPT ![client] = "writer"]
    /\ pc' = "w_send"
    /\ UNCHANGED <<supVars, peerVars, serVars, alive, rpc, ppc, pending,
                   envVars>>

\* line 111, from filter: sendall returns, and the payload is written to the
\* port; or it raises BlockingIOError (on to the handler of line 126) or
\* another socket.error (line 130: break). The lock is released in every
\* case.
WriterSend ==
    /\ pc = "w_send"
    /\ \E o \in (SendOutcomes(client)
                 \cup (IF ioFails THEN {"block"} ELSE {})),
          w \in SerWriteOutcomes :
        /\ pc' = CASE o = "ok" /\ w = "ok" -> "w_loop"
                   [] o = "block" -> "w_blocked"
                   [] OTHER -> "w_stop"
        /\ failed' = (failed \/ o = "error" \/ (o = "ok" /\ w = "error"))
    /\ lock' = Released(client)
    /\ UNCHANGED <<supVars, peerVars, serVars, alive, rpc, ppc, pending,
                   ioFails>>

\* Variant of AfterWouldBlock: BlockingIOError ends the writer's loop.
AfterWouldBlock_Break == "w_stop"

\* lines 126-127: where "except BlockingIOError: pass" leaves the writer, at
\* the test of its loop.
AfterWouldBlock == "w_loop"

\* lines 126-127: the handler of BlockingIOError.
WriterBlocked ==
    /\ pc = "w_blocked"
    /\ pc' = AfterWouldBlock
    /\ UNCHANGED <<supVars, peerVars, serVars, redVars, pending, envVars>>

\* line 134: writer() ends with self.stop(); when stop() returns,
\* shortcircuit() returns and the finally block of line 302 is entered.
WriterStop == Stop("w_stop", "w_join_read", "fin_stop")
WriterJoinRead == JoinRead("w_join_read", "w_join_poll")
WriterJoinPoll == JoinPoll("w_join_poll", "fin_stop")

\* -------------------------------------------------- main loop: the finally
\* line 306: r.stop().
FinStop == Stop("fin_stop", "fin_join_read", "fin_close_client")
FinJoinRead == JoinRead("fin_join_read", "fin_join_poll")
FinJoinPoll == JoinPoll("fin_join_poll", "fin_close_client")

\* line 307: client.close().
FinCloseClient ==
    /\ pc = "fin_close_client"
    /\ sockClosed' = [sockClosed EXCEPT ![client] = TRUE]
    /\ pc' = "fin_dtr"
    /\ UNCHANGED <<client, addr, nAccepted, peerVars, serVars, redVars,
                   pending, envVars>>

\* lines 310-311: ser.dtr = False; ser.rts = False. When the first assignment
\* raises (the attribute is set, the device call fails) the rest of the block
\* is skipped: the exception replaces the one in flight and is handled at
\* line 321, so the main loop goes on.
FinLines ==
    /\ pc = "fin_dtr"
    /\ \E o \in {"ok"} \cup Failure :
        /\ dtr' = FALSE
        /\ rts' = IF o = "ok" THEN FALSE ELSE rts
        /\ pc' = IF o = "ok" THEN "fin_apply" ELSE "top"
        /\ pending' = IF o = "ok" THEN pending ELSE "none"
    /\ UNCHANGED <<supVars, peerVars, serOpen, cfg, settings, openFails,
                   redVars, envVars>>

\* line 312: ser.apply_settings(settings) puts the snapshot back, or raises
\* (handled at line 321 as above).
FinApply ==
    /\ pc = "fin_apply"
    /\ \E o \in {"ok"} \cup Failure :
        /\ cfg' = IF o = "ok" THEN settings ELSE cfg
        /\ pc' = IF o = "ok" THEN "fin_close_ser" ELSE "top"
        /\ pending' = IF o = "ok" THEN pending ELSE "none"
    /\ UNCHANGED <<supVars, peerVars, serOpen, dtr, rts, settings, openFails,
                   redVars, envVars>>

\* Variant of BreaksLoop: whatever ends the try statement breaks the loop.
BreaksLoop_Any(p) == TRUE

\* lines 316-318: of what can be in flight when the try statement of line
\* 231 is left, only KeyboardInterrupt breaks the main loop.
BreaksLoop(p) == p = "kbd"

\* line 313: ser.close() ends the finally block. A KeyboardInterrupt in
\* flight is raised again and handled at line 316 (break); otherwise the
\* main loop starts its next pass.
FinCloseSer ==
    /\ pc = "fin_close_ser"
    /\ serOpen' = FALSE
    /\ pc' = IF BreaksLoop(pending) THEN "terminated" ELSE "top"
    /\ pending' = "none"
    /\ UNCHANGED <<supVars, peerVars, dtr, rts, cfg, settings, openFails,
                   redVars, envVars>>

\* ----------------------------------------------------- KeyboardInterrupt
\* Ctrl-C raises KeyboardInterrupt in the main thread wherever it is. Inside
\* r.shortcircuit() (line 299) the finally block runs first, with the
\* exception in flight, and a lock held by the with statement is released;
\* anywhere else the handler of line 316 breaks the main loop at once.
Interrupt ==
    /\ pc # "terminated"
    /\ IF pc \in SessionPcs
         THEN /\ pc' = "fin_stop"
              /\ pending' = "kbd"
              /\ lock' = IF pc = "w_send"
                           THEN [lock EXCEPT ![client] = "free"] ELSE lock
         ELSE /\ pc' = "terminated"
              /\ pending' = "none"
              /\ UNCHANGED lock
    /\ UNCHANGED <<supVars, peerVars, serVars, alive, rpc, ppc, envVars>>

\* Every step of the main thread.
MainStep ==
    \/ Top
    \/ Probe
    \/ Accept
    \/ Check
    \/ SockOpt
    \/ SerWait
    \/ Snapshot
    \/ AssertLines
    \/ Construct
    \/ Shortcircuit
    \/ WriterPass
    \/ WriterBlocked
    \/ WriterLock
    \/ WriterSend
    \/ WriterStop
    \/ WriterJoinRead
    \/ WriterJoinPoll
    \/ FinStop
    \/ FinJoinRead
    \/ FinJoinPoll
    \/ FinCloseClient
    \/ FinLines
    \/ FinApply
    \/ FinCloseSer

Next ==
    \/ PeerSend
    \/ PeerClose
    \/ MainStep
    \/ \E c \in Clients : ReaderPass(c)
    \/ \E c \in Clients : ReaderLock(c)
    \/ \E c \in Clients : ReaderSend(c)
    \/ \E c \in Clients : PollPass(c)
    \/ \E c \in Clients : PollLock(c)
    \/ \E c \in Clients : PollSend(c)
    \/ Interrupt

Spec == Init /\ [][Next]_vars

\* Scheduling: the main thread and every started thread keep getting
\* processor time, a call that can return does return (reads are bounded by
\* their timeouts, the poll sleep by its interval), and a thread waiting for
\* the write lock gets it once it has been free often enough.
Fairness ==
    /\ WF_vars(MainStep)
    /\ SF_vars(WriterLock)
    /\ \A c \in Clients :
        /\ WF_vars(ReaderPass(c) \/ ReaderSend(c))
        /\ SF_vars(ReaderLock(c))
        /\ WF_vars(PollPass(c) \/ PollSend(c))
        /\ SF_vars(PollLock(c))

\* The runs without I/O failures, under fair scheduling.
CleanSpec == CleanInit /\ [][Next]_vars /\ Fairness

\* ======================================================================
\* Properties
\* ======================================================================

\* The main thread is at a step that uses the serial port or the Redirector
\* of the current client.
SetupPcs == {"serwait", "snapshot", "assert", "construct", "start"}

\* The two background threads of Redirector c have both ended.
ThreadsEnded(c) == rpc[c] = "done" /\ ppc[c] = "done"

\* The activities now inside socket.sendall on the socket of Redirector c.
InSend(c) ==
    (IF rpc[c] = "send" THEN {"reader"} ELSE {})
    \cup (IF ppc[c] = "send" THEN {"poller"} ELSE {})
    \cup (IF c = client /\ pc = "w_send" THEN {"writer"} ELSE {})

\* C1: every accepted connection whose peer host is not in the whitelist has
\* been closed by the supervisor when the supervisor lets go of it (resets or
\* overwrites client), and the supervisor is never at a step that opens or
\* uses the serial port or constructs or runs a Redirector while such a
\* client is the current one.
C1_DeniedClientClosedUntouched ==
    /\ [](client # 0 /\ Denied(addr)
           => pc \notin (SetupPcs \cup SessionPcs \cup FinallyPcs))
    /\ [][(client # 0 /\ Denied(addr) /\ client' # client)
           => sockClosed[client]]_vars

\* C2: whenever the supervisor leaves the finally block of a session (one
\* that no interrupt ended) for its next wait for a client, DTR and RTS are
\* false and the settings in force are the snapshot taken before DTR and RTS
\* were asserted.
C2_RestoredAfterSession ==
    [][(pc \in FinallyPcs /\ pending = "none" /\ pc' = "top")
        => (~dtr' /\ ~rts' /\ cfg' = settings')]_vars

\* C3: whenever shortcircuit() has returned normally to the supervisor (the
\* writer has ended and its stop() call has returned), the reader thread and
\* the poll thread of that Redirector have both ended.
C3_ThreadsEndedOnReturn ==
    (pc \in FinallyPcs /\ pending = "none") => ThreadsEnded(client)

\* C4: at most one Redirector has its flag set, and it is the Redirector of
\* the current client while the main thread is inside shortcircuit() or at
\* the stop() of the finally block: no session starts while an earlier
\* Redirector still has its flag set.
C4_SingleSession ==
    /\ Cardinality({c \in Clients : alive[c]}) <= 1
    /\ \A c \in Clients :
        alive[c] => /\ c = client
                    /\ pc \in SessionPcs \cup {"fin_stop", "terminated"}

C4_Witness == client = 2 /\ alive[2] /\ rpc[1] # "none" /\ pc = "w_loop"

\* C5: once shortcircuit() has set the flag of a Redirector, a flag that is
\* false stays false, whatever step the reader, the writer, the poller or
\* stop() take.
C5_FlagIsLatch ==
    [][\A c \in Clients : (rpc[c] # "none" /\ ~alive[c]) => ~alive'[c]]_vars

C5_Witness ==
    \E c \in Clients : rpc[c] = "loop" /\ ~alive[c] /\ pc \in FinallyPcs

\* C6: stop() called with the flag false returns to its caller in that one
\* step, joining no thread and changing neither the flag nor a thread nor the
\* lock; and the stop() of the finally block, called after the writer's own
\* stop() has returned, always finds the flag false.
C6_StopIdempotent ==
    /\ [](pc = "fin_stop" /\ pending = "none" => ~alive[client])
    /\ [][(pc \in {"w_stop", "fin_stop"} /\ ~alive[client] /\ pc' # pc)
           => /\ pc' \in {"fin_stop", "fin_close_client", "terminated"}
              /\ UNCHANGED <<alive, rpc, ppc, lock>>]_vars

C6_Witness ==
    pc = "fin_stop" /\ pending = "none" /\ ~alive[client] /\ ppc[client] = "loop"

\* C7: at no time are two activities inside socket.sendall on the socket of
\* one Redirector, and its write lock is held exactly while one activity is
\* inside sendall: by that activity, and free again after every way out.
C7_WritesExclusive ==
    \A c \in Clients :
        /\ Cardinality(InSend(c)) <= 1
        /\ (lock[c] = "free") = (InSend(c) = {})
        /\ lock[c] # "free" => InSend(c) = {lock[c]}

C7_Witness ==
    \E c \in Clients : rpc[c] = "send" /\ ppc[c] = "lock" /\ pc = "w_lock"

BackWaiting ==
    /\ pc = "top" /\ client # 0
    /\ ~alive[client] /\ ThreadsEnded(client)
    /\ sockClosed[client]
    /\ ~serOpen /\ ~dtr /\ ~rts /\ cfg = settings

\* C9: in a run without I/O failures, when the peer of a running session
\* has closed its end, the writer's loop ends without an error, stop()
\* completes with both threads ended, the finally block runs to its end and
\* the supervisor is back waiting with the client socket and the serial port
\* closed (unless Ctrl-C ends the program first).
C9_PeerCloseEndsSession ==
    (pc \in SessionPcs /\ peerClosed)
        ~> (pc = "terminated" \/ (BackWaiting /\ ~failed))

C9_Witness == BackWaiting /\ ~failed /\ peerClosed /\ ~ioFails

\* C10: whenever the supervisor leaves the finally block of a session in
\* which a copy activity hit an I/O error (no interrupt) for its next wait
\* for a client, the whole teardown has run: the client socket and the serial
\* port are closed, DTR and RTS are false and the snapshot is back in force.
C10_FailedSessionTornDown ==
    [][(pc \in FinallyPcs /\ failed /\ pending = "none" /\ pc' = "top")
        => (sockClosed'[client] /\ ~serOpen' /\ ~dtr' /\ ~rts'
            /\ cfg' = settings')]_vars

\* C11: the main loop is left (pc becomes "terminated") only by a step of
\* KeyboardInterrupt: either the interrupt itself, outside a session, or the
\* end of a finally block that an interrupt started; and nothing but an
\* interrupt puts a KeyboardInterrupt in flight. No failed ser.open(), accept
\* timeout, denial, socket error or failed session ends the loop.
C11_OnlyInterruptTerminates ==
    /\ [][(pc # "terminated" /\ pc' = "terminated")
           => (Interrupt \/ (pc = "fin_close_ser" /\ pending = "kbd"))]_vars
    /\ [][(pending # "kbd" /\ pending' = "kbd") => Interrupt]_vars
    /\ [][(pc \in {"accept", "probe", "check", "sockopt", "serwait", "assert",
                   "construct"} /\ pc' = "terminated") => Interrupt]_vars

C11_Witness == pc = "top" /\ failed /\ client = 2 /\ serOpen /\ sockClosed[1]

\* C12: when Ctrl-C arrives inside shortcircuit(), the finally block it
\* starts stops the Redirector with both threads ended before it closes the
\* client socket, is not abandoned for another pass of the main loop, and
\* when it ends the program the client socket and the serial port are
\* closed, DTR and RTS are false and the snapshot is in force; and no step
\* is taken once the main loop has been left.
C12_InterruptTearsDown ==
    /\ []((pending = "kbd" /\ pc \in {"fin_close_client", "fin_dtr",
                                       "fin_apply", "fin_close_ser"})
           => ThreadsEnded(client))
    /\ [][(pending = "kbd" /\ pc \in FinallyPcs) => pc' # "top"]_vars
    /\ [][(pending = "kbd" /\ pc = "fin_close_ser" /\ ~serOpen')
           => (pc' = "terminated" /\ sockClosed[client]
               /\ ~dtr /\ ~rts /\ cfg = settings)]_vars
    /\ [][pc = "terminated" => UNCHANGED vars]_vars

\* C13: in a run without I/O failures and under fair scheduling, once a
\* connection from a whitelisted host has been accepted, the supervisor gets
\* to a running session (inside shortcircuit()) whatever the peer does or
\* does not do next; the only ways out are that the peer closes, that
\* ser.open() fails, or Ctrl-C.
C13_AcceptedLeadsToSession ==
    (pc = "probe" /\ ~Denied(addr))
        ~> (pc \in SessionPcs \/ pc = "terminated" \/ peerClosed
            \/ openFails > 0)

\* C14: while the flag of a Redirector is true its poll thread does not end,
\* whatever the outcome of check_modem_lines(), and no step of the poll
\* thread changes the flag.
C14_PollerSurvivesFailure ==
    /\ [][\A c \in Clients :
            (alive[c] /\ ppc[c] \in {"loop", "lock", "send"})
                => ppc'[c] # "done"]_vars
    /\ [][\A c \in Clients :
            (ppc[c] # "none" /\ ppc'[c] # ppc[c]) => alive'[c] = alive[c]]_vars

\* C15: whenever the supervisor lets go of an accepted socket (client is set
\* to None or to a newly accepted socket), it has closed that socket.
C15_NoSocketLeak ==
    [][(client # 0 /\ client' # client) => sockClosed[client]]_vars

\* C16: every byte of a permitted client that the program takes from the
\* client socket is taken by the writer's recv of a running Redirector (and
\* so handed to the filter); no other part of the program consumes one.
C16_BytesReachWriter ==
    [][(client # 0 /\ client' = client /\ ~Denied(addr) /\ inbuf' < inbuf)
        => (pc = "w_loop" /\ alive[client])]_vars

\* C17: the serial port is closed only by the last step of the finally
\* block, after stop() has returned, the client socket has been closed, DTR
\* and RTS have been deasserted and the snapshot has been reapplied; and
\* whenever the supervisor leaves the finally block of a session (one that
\* no interrupt ended) for the next pass of its loop, the serial port is
\* closed.
C17_TeardownOrder ==
    /\ [][(serOpen /\ ~serOpen')
           => (pc = "fin_close_ser" /\ ~alive[client] /\ sockClosed[client]
               /\ ~dtr /\ ~rts /\ cfg = settings)]_vars
    /\ [][(pc \in FinallyPcs /\ sockClosed'[client] # sockClosed[client])
           => (pc = "fin_close_client" /\ ~alive[client] /\ serOpen)]_vars
    /\ [][(pc \in FinallyPcs /\ pending = "none" /\ pc' = "top")
           => ~serOpen']_vars

\* C18: a Redirector whose flag is true has the serial port open and its
\* client socket not closed by the supervisor; a flag becomes true only in
\* shortcircuit(), for the current client, permitted, with the port open;
\* and the supervisor closes a socket or the port only with every flag false.
C18_AliveMeansOpen ==
    /\ [](\A c \in Clients : alive[c] => (serOpen /\ ~sockClosed[c]))
    /\ [][\A c \in Clients :
            (~alive[c] /\ alive'[c])
                => (pc = "start" /\ c = client /\ ~Denied(addr) /\ serOpen
                    /\ ~sockClosed[c])]_vars
    /\ [][(sockClosed' # sockClosed \/ (serOpen /\ ~serOpen'))
           => \A c \in Clients : ~alive[c]]_vars

C18_Witness ==
    alive[2] /\ sockClosed[1] /\ rpc[1] = "done" /\ pc = "w_send"

\* C19: BlockingIOError in the writer changes neither the flag, nor a
\* thread, nor the port or its settings, nor the bytes pending, and records
\* no failure; from its handler the writer goes back to the test of its loop
\* (or Ctrl-C starts the finally block), never to stop().
C19_WouldBlockRetries ==
    /\ [][(pc # "w_blocked" /\ pc' = "w_blocked")
           => (pc \in {"w_loop", "w_send"}
               /\ UNCHANGED <<alive, rpc, ppc, serVars, peerVars, failed>>)]_vars
    /\ [][(pc = "w_blocked" /\ pc' # pc)
           => (/\ pc' = "w_loop" \/ (pc' = "fin_stop" /\ pending' = "kbd")
               /\ UNCHANGED <<alive, rpc, ppc, lock, serVars, peerVars,
                              failed>>)]_vars

C19_Witness ==
    pc = "w_blocked" /\ alive[client] /\ rpc[client] = "send" /\ ~failed
    /\ client = 2

\* The main thread is inside a join of stop().
JoinPcs == {"w_join_read", "w_join_poll", "fin_join_read", "fin_join_poll"}

\* C20: under fair scheduling, a stop() that has cleared the flag and is
\* joining returns with both threads ended: the writer's stop() to the
\* finally block, the stop() of the finally block to client.close() (unless
\* Ctrl-C cuts the join short); and no step of a reader thread moves the main
\* thread, so a reader never runs stop() and no thread joins itself.
C20_StopTerminates ==
    /\ (pc \in {"w_join_read", "w_join_poll"})
           ~> (\/ pc = "terminated"
               \/ pending = "kbd"
               \/ (pc = "fin_stop" /\ ThreadsEnded(client)))
    /\ (pc \in {"fin_join_read", "fin_join_poll"})
           ~> (\/ pc = "terminated"
               \/ (pc = "fin_close_client" /\ ThreadsEnded(client)))
    /\ [][\A c \in Clients :
            (rpc[c] # "none" /\ rpc'[c] # rpc[c])
                => (pc' = pc /\ ppc' = ppc)]_vars
    /\ [](pc \in JoinPcs => (~alive[client] /\ lock[client] # "writer"))

C20_Witness ==
    /\ pc = "fin_close_client" /\ pending = "kbd" /\ ~ioFails
    /\ ThreadsEnded(client) /\ client = 2

====
